---------------------------- MODULE Spec2Model ----------------------------
(***************************************************************************)
(* Model of app.py: a FastAPI service with the routes GET /healthz and     *)
(* POST /agent.  /agent validates an AgentPayload, runs a LangChain agent  *)
(* whose two tools (preco, enviar_msg) POST to n8n webhooks through        *)
(* call_n8n, and relays the agent's final text.                            *)
(*                                                                         *)
(* The LLM agent, the webhooks and the HTTP clients are the environment:   *)
(* what they send is drawn from small sets.  Python and JSON values are    *)
(* tagged records [t, v]; a dict is a sequence of [k, v] pairs in          *)
(* insertion order; strings are built as Python builds them (str(),        *)
(* json.dumps, f-strings).                                                 *)
(***************************************************************************)
EXTENDS Integers, Sequences, FiniteSets, TLC

VARIABLES OPENAI_API_KEY, N8N_BASE, N8N_TOOL_TOKEN, req

vars == <<OPENAI_API_KEY, N8N_BASE, N8N_TOOL_TOKEN, req>>

config == <<OPENAI_API_KEY, N8N_BASE, N8N_TOOL_TOKEN>>

(***************************************************************************)
(* Bounds                                                                  *)
(***************************************************************************)
\* number of HTTP requests the server handles concurrently
NReq == 2
\* number of tool calls the agent loop may make in one run
MaxIter == 2

Req == 1..NReq

(***************************************************************************)
(* Python / JSON values                                                    *)
(***************************************************************************)
JNull == [t |-> "null", v |-> 0]
JBool(b) == [t |-> "bool", v |-> b]
JInt(n) == [t |-> "int", v |-> n]
JStr(s) == [t |-> "str", v |-> s]
JList(l) == [t |-> "list", v |-> l]
JDict(d) == [t |-> "dict", v |-> d]
KV(key, val) == [k |-> key, v |-> val]

\* `k in d` and `d[k]` for a dict given as its sequence of pairs
Has(d, key) == \E i \in 1..Len(d) : d[i].k = key
Get(d, key) == d[CHOOSE i \in 1..Len(d) : d[i].k = key].v

RECURSIVE PyRepr(_)
RECURSIVE PyReprItems(_)
RECURSIVE PyReprPairs(_)
\* repr(x): what str() of a container shows for each element
PyRepr(x) ==
  CASE x.t = "null" -> "None"
    [] x.t = "bool" -> IF x.v THEN "True" ELSE "False"
    [] x.t = "int" -> ToString(x.v)
    [] x.t = "str" -> "'" \o x.v \o "'"
    [] x.t = "list" -> "[" \o PyReprItems(x.v) \o "]"
    [] x.t = "dict" -> "{" \o PyReprPairs(x.v) \o "}"
PyReprItems(l) ==
  IF l = <<>> THEN ""
  ELSE IF Len(l) = 1 THEN PyRepr(l[1])
  ELSE PyRepr(l[1]) \o ", " \o PyReprItems(Tail(l))
PyReprPairs(d) ==
  IF d = <<>> THEN ""
  ELSE IF Len(d) = 1 THEN "'" \o d[1].k \o "': " \o PyRepr(d[1].v)
  ELSE "'" \o d[1].k \o "': " \o PyRepr(d[1].v) \o ", " \o PyReprPairs(Tail(d))

\* str(x): a string is itself, everything else is its repr
PyStr(x) == IF x.t = "str" THEN x.v ELSE PyRepr(x)

RECURSIVE JsonDumps(_)
RECURSIVE JsonItems(_)
RECURSIVE JsonPairs(_)
\* json.dumps(x, ensure_ascii=False), default separators ", " and ": "
JsonDumps(x) ==
  CASE x.t = "null" -> "null"
    [] x.t = "bool" -> IF x.v THEN "true" ELSE "false"
    [] x.t = "int" -> ToString(x.v)
    [] x.t = "str" -> "\"" \o x.v \o "\""
    [] x.t = "list" -> "[" \o JsonItems(x.v) \o "]"
    [] x.t = "dict" -> "{" \o JsonPairs(x.v) \o "}"
JsonItems(l) ==
  IF l = <<>> THEN ""
  ELSE IF Len(l) = 1 THEN JsonDumps(l[1])
  ELSE JsonDumps(l[1]) \o ", " \o JsonItems(Tail(l))
JsonPairs(d) ==
  IF d = <<>> THEN ""
  ELSE IF Len(d) = 1 THEN "\"" \o d[1].k \o "\": " \o JsonDumps(d[1].v)
  ELSE "\"" \o d[1].k \o "\": " \o JsonDumps(d[1].v) \o ", " \o JsonPairs(Tail(d))

(***************************************************************************)
(* HTTPException and the responses of the front end                        *)
(***************************************************************************)
NoDetail == [kind |-> "none", tool |-> "", status |-> 0, response |-> JNull, msg |-> ""]
\* detail={"tool": path, "status": resp.status_code, "response": data}
ToolDetail(path, status, data) ==
  [kind |-> "tool", tool |-> path, status |-> status, response |-> data, msg |-> ""]
\* detail=<a message string>
MsgDetail(m) == [kind |-> "msg", tool |-> "", status |-> 0, response |-> JNull, msg |-> m]
\* the framework's own detail for a body that fails the schema
ValidationDetail(field) ==
  [kind |-> "validation", tool |-> "", status |-> 0, response |-> JNull, msg |-> field]

HTTPException(status, detail) == [kind |-> "HTTPException", status |-> status, detail |-> detail]
OtherException(m) == [kind |-> "Exception", status |-> 0, detail |-> MsgDetail(m)]
NoException == [kind |-> "none", status |-> 0, detail |-> NoDetail]

NoResponse == [status |-> 0, ok |-> FALSE, hasText |-> FALSE, text |-> "", detail |-> NoDetail]
OkResponse == [status |-> 200, ok |-> TRUE, hasText |-> FALSE, text |-> "", detail |-> NoDetail]
OkText(s) == [status |-> 200, ok |-> TRUE, hasText |-> TRUE, text |-> s, detail |-> NoDetail]
ErrorResponse(status, detail) ==
  [status |-> status, ok |-> FALSE, hasText |-> FALSE, text |-> "", detail |-> detail]


(***************************************************************************)
(* The n8n webhook as call_n8n sees it: the outcome of requests.post       *)
(***************************************************************************)
NoResp == [kind |-> "none", status |-> 0, isJson |-> FALSE, body |-> JNull, text |-> "", err |-> ""]
\* a response whose body parses as JSON
HttpJson(status, val) ==
  [kind |-> "http", status |-> status, isJson |-> TRUE, body |-> val, text |-> "", err |-> ""]
\* a response whose body is not JSON
HttpRaw(status, raw) ==
  [kind |-> "http", status |-> status, isJson |-> FALSE, body |-> JNull, text |-> raw, err |-> ""]
\* requests.post raised (timeout, connection refused, DNS failure)
Transport(e) ==
  [kind |-> "transport", status |-> 0, isJson |-> FALSE, body |-> JNull, text |-> "", err |-> e]

(***************************************************************************)
(* call_n8n                                                                *)
(***************************************************************************)
NoPost == [url |-> "", path |-> "", headers |-> <<>>, payload |-> JNull]

\* headers = {"Content-Type": ..., "Authorization": f"Bearer {N8N_TOOL_TOKEN}"}
call_n8n_headers(token) ==
  << KV("Content-Type", "application/json"), KV("Authorization", "Bearer " \o token) >>

\* url = f"{N8N_BASE}/{path.lstrip('/')}" and the arguments of requests.post;
\* the two paths the tools pass have no leading slash
call_n8n_request(base, token, path, payload) ==
  [url |-> base \o "/" \o path, path |-> path,
   headers |-> call_n8n_headers(token), payload |-> payload]

\* try: data = resp.json()  except Exception: data = {"text": resp.text}
resp_json(resp) ==
  IF resp.isJson THEN resp.body ELSE JDict(<< KV("text", JStr(resp.text)) >>)

\* isinstance(x, (str, int, float)); bool is a subclass of int
is_str_int_float(x) == x.t \in {"str", "int", "bool"}

PriorityKeys == << "mensagem", "message", "texto", "text", "output" >>

RECURSIVE probe_keys_truthy(_, _)
\* mutant: the probe tests the value's truthiness (`if data.get(k):`)
probe_keys_truthy(d, ks) ==
  IF ks = <<>> THEN JsonDumps(JDict(d))
  ELSE IF /\ Has(d, Head(ks))
          /\ is_str_int_float(Get(d, Head(ks)))
          /\ Get(d, Head(ks)) \notin {JInt(0), JStr(""), JBool(FALSE)}
       THEN PyStr(Get(d, Head(ks)))
       ELSE probe_keys_truthy(d, Tail(ks))

RECURSIVE probe_keys(_, _)
\* for k in (...): if k in data and isinstance(data[k], (str, int, float)):
\*     return str(data[k])
\* return json.dumps(data, ensure_ascii=False)
probe_keys(d, ks) ==
  IF ks = <<>> THEN JsonDumps(JDict(d))
  ELSE IF Has(d, Head(ks)) /\ is_str_int_float(Get(d, Head(ks)))
       THEN PyStr(Get(d, Head(ks)))
       ELSE probe_keys(d, Tail(ks))

\* mutant: every value that is not a mapping goes through json.dumps
textual_output_dumps(data) ==
  IF data.t = "dict" THEN probe_keys(data.v, PriorityKeys) ELSE JsonDumps(data)

\* "padroniza saida textual": the value call_n8n returns for parsed data
textual_output(data) ==
  IF data.t = "dict" THEN probe_keys(data.v, PriorityKeys) ELSE PyStr(data)

Return(s) == [raised |-> FALSE, value |-> s, exc |-> NoException]
Raise(e) == [raised |-> TRUE, value |-> "", exc |-> e]

\* mutant: the HTTPException carries the webhook's own status code
call_n8n_result_passthrough(path, resp) ==
  IF resp.kind = "transport"
  THEN Raise(HTTPException(502, MsgDetail("Erro chamando n8n/" \o path \o ": " \o resp.err)))
  ELSE LET data == resp_json(resp) IN
       IF resp.status >= 400
       THEN Raise(HTTPException(resp.status, ToolDetail(path, resp.status, data)))
       ELSE Return(textual_output(data))

\* mutant: only server errors (>= 500) count as failures
call_n8n_result_5xx(path, resp) ==
  IF resp.kind = "transport"
  THEN Raise(HTTPException(502, MsgDetail("Erro chamando n8n/" \o path \o ": " \o resp.err)))
  ELSE LET data == resp_json(resp) IN
       IF resp.status >= 500
       THEN Raise(HTTPException(502, ToolDetail(path, resp.status, data)))
       ELSE Return(textual_output(data))

\* mutant: the transport error is not wrapped (no `except Exception` clause)
call_n8n_result_unwrapped(path, resp) ==
  IF resp.kind = "transport"
  THEN Raise(OtherException(resp.err))
  ELSE LET data == resp_json(resp) IN
       IF resp.status >= 400
       THEN Raise(HTTPException(502, ToolDetail(path, resp.status, data)))
       ELSE Return(textual_output(data))

\* what call_n8n does with the outcome of its requests.post
call_n8n_result(path, resp) ==
  IF resp.kind = "transport"
  THEN Raise(HTTPException(502, MsgDetail("Erro chamando n8n/" \o path \o ": " \o resp.err)))
  ELSE LET data == resp_json(resp) IN
       IF resp.status >= 400
       THEN Raise(HTTPException(502, ToolDetail(path, resp.status, data)))
       ELSE Return(textual_output(data))

(***************************************************************************)
(* Tools                                                                   *)
(***************************************************************************)
\* return call_n8n("preco", a)
tool_preco(a) == [path |-> "preco", payload |-> a]

\* return call_n8n("enviarmsg", a)
tool_enviar_msg(a) == [path |-> "enviarmsg", payload |-> a]

\* func=lambda a: tool_x(a if isinstance(a, dict) else {})
TOOLS(name, a) ==
  IF name = "preco"
  THEN tool_preco(IF a.t = "dict" THEN a ELSE JDict(<<>>))
  ELSE tool_enviar_msg(IF a.t = "dict" THEN a ELSE JDict(<<>>))

ToolNames == {"preco", "enviar_msg"}

(***************************************************************************)
(* AgentPayload and agent_endpoint                                         *)
(***************************************************************************)
\* mutant: mensagem declared Optional
payload_valid_optional_mensagem(body) ==
  /\ Has(body, "lead_id") /\ Get(body, "lead_id").t = "str"
  /\ Has(body, "instancia") => Get(body, "instancia").t \in {"str", "null"}
  /\ Has(body, "contexto") => Get(body, "contexto").t \in {"dict", "null"}

\* pydantic: lead_id and mensagem are required strings; instancia defaults
\* to None and contexto to {}
payload_valid(body) ==
  /\ Has(body, "lead_id") /\ Get(body, "lead_id").t = "str"
  /\ Has(body, "mensagem") /\ Get(body, "mensagem").t = "str"
  /\ Has(body, "instancia") => Get(body, "instancia").t \in {"str", "null"}
  /\ Has(body, "contexto") => Get(body, "contexto").t \in {"dict", "null"}

AgentPayload(body) ==
  [lead_id |-> Get(body, "lead_id"),
   instancia |-> IF Has(body, "instancia") THEN Get(body, "instancia") ELSE JNull,
   mensagem |-> Get(body, "mensagem"),
   contexto |-> IF Has(body, "contexto") THEN Get(body, "contexto") ELSE JDict(<<>>)]

missing_field(body) ==
  IF ~Has(body, "lead_id") THEN "lead_id" ELSE "mensagem"

\* `x or default` on a value that is None, an empty str or an empty dict
py_or(x, default) ==
  IF x.t = "null" \/ (x.t = "dict" /\ x.v = <<>>) \/ (x.t = "str" /\ x.v = "")
  THEN default ELSE x

\* the f-string that becomes the agent's 'input'
user_input(b) ==
  "lead_id=" \o PyStr(b.lead_id) \o "; instancia=" \o PyStr(py_or(b.instancia, JStr("")))
    \o "; contexto=" \o JsonDumps(py_or(b.contexto, JDict(<<>>)))
    \o "; pergunta=" \o PyStr(b.mensagem)

\* if isinstance(result, dict) and "output" in result: text = str(result["output"])
\* else: text = str(result)
result_text(result) ==
  IF result.t = "dict" /\ Has(result.v, "output")
  THEN PyStr(Get(result.v, "output"))
  ELSE PyStr(result)

\* mutant: every exception is reported as an upstream failure
agent_endpoint_except_502(e) ==
  IF e.kind = "HTTPException"
  THEN ErrorResponse(e.status, e.detail)
  ELSE ErrorResponse(502, MsgDetail("Agent error: " \o e.detail.msg))

\* except HTTPException: raise
\* except Exception as e: raise HTTPException(status_code=500, detail=f"Agent error: {e}")
agent_endpoint_except(e) ==
  IF e.kind = "HTTPException"
  THEN ErrorResponse(e.status, e.detail)
  ELSE ErrorResponse(500, MsgDetail("Agent error: " \o e.detail.msg))

(***************************************************************************)
(* The environment's inputs                                                *)
(***************************************************************************)
LeadId == KV("lead_id", JStr("123"))
Mensagem == KV("mensagem", JStr("qual o preco?"))

\* JSON bodies a client POSTs to /agent
Bodies ==
  { << LeadId, Mensagem >>,
    << LeadId, KV("instancia", JStr("evolution-7")), Mensagem,
       KV("contexto", JDict(<< KV("produto", JStr("Aliviozon")) >>)) >>,
    << LeadId >>,
    << Mensagem >> }

\* tool inputs the agent emits: a mapping, or the text of a ReAct "Action Input"
ToolInputs ==
  { JDict(<< LeadId, KV("texto", JStr("Ola")) >>),
    JStr("lead_id=123") }

\* values agent.invoke returns
AgentResults ==
  { JDict(<< KV("input", JStr("q")), KV("output", JStr("Custa R$99")) >>),
    JDict(<< KV("input", JStr("q")), KV("output", JStr("")) >>),
    JStr("Custa R$99") }

\* messages of the exceptions the agent run raises by itself
ModelErrors == {"OpenAI API error"}

\* parsed JSON bodies a webhook answers with
JsonBodies ==
  { JDict(<< KV("mensagem", JStr("R$99")) >>),
    JDict(<< KV("output", JStr("o")), KV("text", JStr("t")), KV("message", JStr("m")) >>),
    JDict(<< KV("texto", JStr("x")), KV("mensagem", JStr("R$99")) >>),
    JDict(<< KV("mensagem", JNull), KV("text", JStr("t")) >>),
    JDict(<< KV("message", JList(<< JInt(1) >>)), KV("output", JInt(7)) >>),
    JDict(<< KV("texto", JDict(<< KV("a", JInt(1)) >>)) >>),
    JDict(<< KV("output", JInt(0)) >>),
    JDict(<< KV("text", JBool(FALSE)) >>),
    JDict(<< KV("message", JStr("")) >>),
    JDict(<< KV("ok", JBool(TRUE)) >>),
    JDict(<<>>),
    JInt(42), JInt(0), JStr("ok"), JStr(""), JBool(TRUE), JNull,
    JList(<< JInt(1), JStr("a") >>), JList(<<>>) }

\* bodies that are not JSON
RawBodies == {"Not Found", ""}

Statuses == {200, 399, 400, 500}

TransportErrors == {"timed out", "connection refused", "name resolution failed"}

\* every outcome of the POST
AllResponses ==
  {HttpJson(s, b) : s \in Statuses, b \in JsonBodies}
    \cup {HttpRaw(s, t) : s \in Statuses, t \in RawBodies}
    \cup {Transport(e) : e \in TransportErrors}

\* the inputs of the concurrent model
CoreBodies == { << LeadId, Mensagem >>, << LeadId >> }
CoreToolInputs == { JDict(<< LeadId, KV("texto", JStr("Ola")) >>) }
CoreResults ==
  { JDict(<< KV("input", JStr("q")), KV("output", JStr("Custa R$99")) >>),
    JDict(<< KV("input", JStr("q")), KV("output", JStr("")) >>) }
CoreResponses ==
  { HttpJson(200, JDict(<< KV("mensagem", JStr("R$99")) >>)),
    HttpJson(500, JDict(<< KV("error", JStr("boom")) >>)),
    Transport("timed out") }

(***************************************************************************)
(* State                                                                   *)
(***************************************************************************)
NoCall == [tool |-> "", arg |-> JNull]

IdleReq ==
  [route |-> "none", st |-> "Idle", body |-> <<>>, input |-> "", pc |-> "-",
   iter |-> 0, call |-> NoCall, post |-> NoPost, nPosts |-> 0, wresp |-> NoResp,
   obs |-> "", exc |-> NoException, result |-> JNull, response |-> NoResponse]

\* module import: the process starts only with a key and a base URL; the
\* token may be empty (a warning is logged)
Init ==
  /\ OPENAI_API_KEY = "sk-test"
  /\ N8N_BASE = "https://n8n.example/webhook"
  /\ N8N_TOOL_TOKEN \in {"", "s3cret"}
  /\ req = [r \in Req |-> IdleReq]

(***************************************************************************)
(* Actions                                                                 *)
(***************************************************************************)
\* the server accepts a request on one of the two routes
Receive(r, bodies) ==
  /\ req[r].st = "Idle"
  /\ \/ req' = [req EXCEPT ![r].route = "healthz", ![r].st = "Received"]
     \/ \E b \in bodies :
          req' = [req EXCEPT ![r].route = "agent", ![r].st = "Received", ![r].body = b]
  /\ UNCHANGED config

\* mutant: the health check reports the failures of other requests
healthz_upstream(r) ==
  /\ req[r].st = "Received" /\ req[r].route = "healthz"
  /\ req' = [req EXCEPT ![r].st = "Completed",
                        ![r].response =
                          IF \E o \in Req : req[o].st = "Failed"
                          THEN ErrorResponse(503, NoDetail) ELSE OkResponse]
  /\ UNCHANGED config

\* def healthz(): return {"ok": True}
healthz(r) ==
  /\ req[r].st = "Received" /\ req[r].route = "healthz"
  /\ req' = [req EXCEPT ![r].st = "Completed", ![r].response = OkResponse]
  /\ UNCHANGED config

\* FastAPI parses the body into AgentPayload before agent_endpoint is called;
\* a body that does not fit is answered 422 by the framework
Validate(r) ==
  /\ req[r].st = "Received" /\ req[r].route = "agent"
  /\ IF payload_valid(req[r].body)
     THEN req' = [req EXCEPT ![r].st = "Validated"]
     ELSE req' = [req EXCEPT ![r].st = "Failed",
                             ![r].response =
                               ErrorResponse(422, ValidationDetail(missing_field(req[r].body)))]
  /\ UNCHANGED config

\* agent_endpoint up to agent.invoke({"input": user_input, **tool_context})
agent_endpoint(r) ==
  /\ req[r].st = "Validated"
  /\ req' = [req EXCEPT ![r].st = "Running", ![r].pc = "think",
                        ![r].input = user_input(AgentPayload(req[r].body))]
  /\ UNCHANGED config

\* the agent emits a tool call; the Tool's lambda, tool_preco/tool_enviar_msg
\* and call_n8n run up to requests.post, which sends the one POST
AgentToolCall(r, inputs) ==
  /\ req[r].st = "Running" /\ req[r].pc = "think"
  /\ req[r].iter < MaxIter
  /\ \E name \in ToolNames, a \in inputs :
       LET c == TOOLS(name, a) IN
       req' = [req EXCEPT ![r].pc = "wait",
                          ![r].iter = @ + 1,
                          ![r].call = [tool |-> name, arg |-> a],
                          ![r].post = call_n8n_request(N8N_BASE, N8N_TOOL_TOKEN,
                                                       c.path, c.payload),
                          ![r].nPosts = 1,
                          ![r].wresp = NoResp,
                          ![r].obs = ""]
  /\ UNCHANGED config

\* requests.post returns or raises; call_n8n returns the text to the agent as
\* the tool's observation, or raises HTTPException, which leaves agent.invoke
\* and is re-raised by agent_endpoint
call_n8n(r, responses) ==
  /\ req[r].st = "Running" /\ req[r].pc = "wait"
  /\ \E resp \in responses :
       LET out == call_n8n_result(req[r].post.path, resp) IN
       IF out.raised
       THEN req' = [req EXCEPT ![r].st = "Failed", ![r].pc = "-",
                               ![r].wresp = resp,
                               ![r].exc = out.exc,
                               ![r].response = agent_endpoint_except(out.exc)]
       ELSE req' = [req EXCEPT ![r].pc = "think",
                               ![r].wresp = resp,
                               ![r].obs = out.value]
  /\ UNCHANGED config

\* agent.invoke returns; agent_endpoint returns {"ok": True, "text": text}
AgentFinish(r, results) ==
  /\ req[r].st = "Running" /\ req[r].pc = "think"
  /\ \E result \in results :
       req' = [req EXCEPT ![r].st = "Completed", ![r].pc = "-",
                          ![r].result = result,
                          ![r].response = OkText(result_text(result))]
  /\ UNCHANGED config

\* agent.invoke raises an exception of its own (model API failure)
AgentRaises(r) ==
  /\ req[r].st = "Running" /\ req[r].pc = "think"
  /\ \E m \in ModelErrors :
       req' = [req EXCEPT ![r].st = "Failed", ![r].pc = "-",
                          ![r].exc = OtherException(m),
                          ![r].response = agent_endpoint_except(OtherException(m))]
  /\ UNCHANGED config

\* one request, every input of the environment
Next ==
  \E r \in {1} :
    \/ Receive(r, Bodies)
    \/ healthz(r)
    \/ Validate(r)
    \/ agent_endpoint(r)
    \/ AgentToolCall(r, ToolInputs)
    \/ call_n8n(r, AllResponses)
    \/ AgentFinish(r, AgentResults)
    \/ AgentRaises(r)

Spec == Init /\ [][Next]_vars

\* NReq requests handled concurrently: the server's workers interleave at
\* every blocking call
NextConc ==
  \E r \in Req :
    \/ Receive(r, CoreBodies)
    \/ healthz(r)
    \/ Validate(r)
    \/ agent_endpoint(r)
    \/ AgentToolCall(r, CoreToolInputs)
    \/ call_n8n(r, CoreResponses)
    \/ AgentFinish(r, CoreResults)
    \/ AgentRaises(r)

SpecConc == Init /\ [][NextConc]_vars

(***************************************************************************)
(* Properties                                                              *)
(***************************************************************************)
Ended(r) == req[r].st \in {"Completed", "Failed"}

ValidAgent(r) == req[r].route = "agent" /\ payload_valid(req[r].body)

\* the last webhook outcome of r was a failure (error status or no answer)
ToolFailed(r) ==
  \/ req[r].wresp.kind = "transport"
  \/ req[r].wresp.kind = "http" /\ req[r].wresp.status >= 400

\* the error half of the /agent contract: 502 exactly for a failed tool
\* call, 500 for the agent's other exceptions
DocumentedError(r) ==
  /\ req[r].st = "Failed"
  /\ ~req[r].response.ok /\ ~req[r].response.hasText
  /\ \/ req[r].response.status = 502 /\ ToolFailed(r)
     \/ req[r].response.status = 500 /\ ~ToolFailed(r)

\* C1 as claimed: a valid /agent request ends either with 200 {ok: true,
\* text: t}, t a NON-EMPTY string, or with 502 (tool failure) or 500 (other)
C1_NonEmptyTextOrError ==
  \A r \in Req :
    ValidAgent(r) /\ Ended(r) =>
      \/ /\ req[r].st = "Completed"
         /\ req[r].response.status = 200 /\ req[r].response.ok
         /\ req[r].response.hasText /\ req[r].response.text # ""
      \/ DocumentedError(r)

\* C1 amended: a valid /agent request ends either with 200 {ok: true,
\* text: t}, t the string form of the agent's output (possibly empty), or
\* with 502 (tool failure) or 500 (other); until it ends it has no response
C1_TextOrError ==
  \A r \in Req :
    ValidAgent(r) =>
      IF Ended(r)
      THEN \/ /\ req[r].st = "Completed"
              /\ req[r].response.status = 200 /\ req[r].response.ok
              /\ req[r].response.hasText
              /\ req[r].response.detail = NoDetail
           \/ DocumentedError(r)
      ELSE req[r].response = NoResponse

\* a valid request completed with the empty text the agent produced
C1_Witness ==
  \E r \in Req :
    /\ ValidAgent(r) /\ req[r].st = "Completed"
    /\ req[r].response = OkText("")

\* the path a tool is bound to
PathOf(tool) == IF tool = "preco" THEN "preco" ELSE "enviarmsg"

\* C2: a webhook answer with status >= 400 ends the request with a 502 whose
\* detail holds the tool's path, the webhook's status and the parsed body
\* (or the raw body under "text"), after exactly one POST, never with ok
C2_ErrorStatusGives502 ==
  \A r \in Req :
    req[r].wresp.kind = "http" /\ req[r].wresp.status >= 400 =>
      /\ req[r].st = "Failed"
      /\ req[r].nPosts = 1
      /\ req[r].response.status = 502 /\ ~req[r].response.ok
      /\ req[r].response.detail.kind = "tool"
      /\ req[r].response.detail.tool = PathOf(req[r].call.tool)
      /\ req[r].response.detail.status = req[r].wresp.status
      /\ IF req[r].wresp.isJson
         THEN req[r].response.detail.response = req[r].wresp.body
         ELSE /\ req[r].response.detail.response.t = "dict"
              /\ Has(req[r].response.detail.response.v, "text")
              /\ Get(req[r].response.detail.response.v, "text") = JStr(req[r].wresp.text)

\* the price webhook answered 500 with a JSON body and the request failed
C2_Witness ==
  \E r \in Req :
    /\ req[r].wresp.kind = "http" /\ req[r].wresp.status = 500 /\ req[r].wresp.isJson
    /\ req[r].call.tool = "preco"
    /\ req[r].st = "Failed" /\ req[r].response.status = 502

\* C3: a transport failure of the POST ends call_n8n with the same 502
\* HTTPException, its detail the message wrapping the transport error, after
\* exactly one POST
C3_TransportGives502 ==
  \A r \in Req :
    req[r].wresp.kind = "transport" =>
      /\ req[r].st = "Failed"
      /\ req[r].nPosts = 1
      /\ req[r].exc.kind = "HTTPException" /\ req[r].exc.status = 502
      /\ req[r].response.status = 502 /\ ~req[r].response.ok
      /\ req[r].response.detail.kind = "msg"
      /\ req[r].response.detail.msg =
           "Erro chamando n8n/" \o PathOf(req[r].call.tool) \o ": " \o req[r].wresp.err

\* the send-message POST timed out and the request failed with 502
C3_Witness ==
  \E r \in Req :
    /\ req[r].wresp = Transport("timed out")
    /\ req[r].call.tool = "enviar_msg"
    /\ req[r].st = "Failed" /\ req[r].response.status = 502

LacksRequired(r) ==
  req[r].route = "agent" /\ (~Has(req[r].body, "lead_id") \/ ~Has(req[r].body, "mensagem"))

\* C4: a request lacking mensagem or lead_id ends with the validation error
\* without the agent being invoked or any POST sent, and a request enters
\* Running only from Validated
C4_ValidationBeforeRunning ==
  /\ [](\A r \in Req :
          LacksRequired(r) /\ req[r].st # "Received" =>
            /\ req[r].st = "Failed"
            /\ req[r].response.status = 422
            /\ req[r].response.detail.kind = "validation"
            /\ req[r].iter = 0 /\ req[r].nPosts = 0 /\ req[r].post = NoPost
            /\ req[r].input = "" /\ req[r].pc = "-")
  /\ [][\A r \in Req :
          req'[r].st = "Running" /\ req[r].st # "Running" => req[r].st = "Validated"]_vars

\* a request without mensagem was answered 422
C4_Witness ==
  \E r \in Req :
    /\ req[r].route = "agent" /\ ~Has(req[r].body, "mensagem")
    /\ req[r].st = "Failed" /\ req[r].response.status = 422

\* r holds the text call_n8n returned for a successful webhook answer
Returned(r) ==
  /\ req[r].st = "Running" /\ req[r].pc = "think"
  /\ req[r].wresp.kind = "http" /\ req[r].wresp.status < 400

ObjectBody(r) == req[r].wresp.isJson /\ req[r].wresp.body.t = "dict"

\* positions in the priority order of the candidate keys present in d
PresentKeys(d) == {i \in 1..Len(PriorityKeys) : Has(d, PriorityKeys[i])}

\* ... of those whose value is a string or a number
TextKeys(d) ==
  {i \in PresentKeys(d) : Get(d, PriorityKeys[i]).t \in {"str", "int", "bool"}}

First(I) == CHOOSE i \in I : \A j \in I : i <= j

\* C5 as claimed: for a mapping with a candidate key, call_n8n returns the
\* string form of the value under the first candidate key present, whatever
\* the value
C5_FirstPresentKey ==
  \A r \in Req :
    Returned(r) /\ ObjectBody(r) /\ PresentKeys(req[r].wresp.body.v) # {} =>
      req[r].obs =
        PyStr(Get(req[r].wresp.body.v, PriorityKeys[First(PresentKeys(req[r].wresp.body.v))]))

\* C5 amended: call_n8n returns the string form of the value under the first
\* candidate key, in priority order, whose value is a string or a number
\* (0, "" and booleans included); when no candidate key holds such a value
\* it returns the JSON text of the whole mapping
C5_FirstTextKey ==
  \A r \in Req :
    Returned(r) /\ ObjectBody(r) /\ PresentKeys(req[r].wresp.body.v) # {} =>
      LET d == req[r].wresp.body.v IN
      IF TextKeys(d) # {}
      THEN req[r].obs = PyStr(Get(d, PriorityKeys[First(TextKeys(d))]))
      ELSE req[r].obs = JsonDumps(req[r].wresp.body)

\* a numeric zero under the only candidate key was returned as "0"
C5_Witness ==
  \E r \in Req :
    /\ Returned(r)
    /\ req[r].wresp.body = JDict(<< KV("output", JInt(0)) >>)
    /\ req[r].obs = "0"

\* C6 as claimed: a JSON body that is not an object is returned as its JSON
\* serialization, a body that is not JSON as its raw text
C6_JsonForm ==
  \A r \in Req :
    Returned(r) /\ ~ObjectBody(r) =>
      IF req[r].wresp.isJson
      THEN req[r].obs = JsonDumps(req[r].wresp.body)
      ELSE req[r].obs = req[r].wresp.text

\* C6 amended: a JSON body that is not an object is returned as Python's
\* str() of the parsed value: the digits of an integer (42 gives "42"), the
\* bare text of a string, True/False, None, the repr of a list; a body that
\* is not JSON is returned as its raw text
C6_PythonStrForm ==
  \A r \in Req :
    Returned(r) /\ ~ObjectBody(r) =>
      IF req[r].wresp.isJson
      THEN LET b == req[r].wresp.body IN
           CASE b.t = "int" -> req[r].obs = ToString(b.v)
             [] b.t = "str" -> req[r].obs = b.v
             [] b.t = "bool" -> req[r].obs = (IF b.v THEN "True" ELSE "False")
             [] b.t = "null" -> req[r].obs = "None"
             [] b.t = "list" -> req[r].obs = PyRepr(b)
      ELSE req[r].obs = req[r].wresp.text

\* the JSON string "ok" was returned as the two characters ok
C6_Witness ==
  \E r \in Req :
    /\ Returned(r)
    /\ req[r].wresp.isJson /\ req[r].wresp.body = JStr("ok")
    /\ req[r].obs = "ok"

\* C7 as claimed: a POST carries Authorization: Bearer <token> if and only
\* if a token is configured
C7_AuthorizationIffToken ==
  \A r \in Req :
    req[r].post # NoPost =>
      /\ Has(req[r].post.headers, "Authorization") <=> N8N_TOOL_TOKEN # ""
      /\ N8N_TOOL_TOKEN # "" =>
           Get(req[r].post.headers, "Authorization") = "Bearer " \o N8N_TOOL_TOKEN

\* C8 as claimed: every tool invocation POSTs, once, on the tool's own path,
\* the argument value the agent supplied
C8_ArgumentForwarded ==
  \A r \in Req :
    req[r].post # NoPost =>
      /\ req[r].nPosts = 1
      /\ req[r].post.path = PathOf(req[r].call.tool)
      /\ req[r].post.payload.t = req[r].call.arg.t
      /\ req[r].post.payload = req[r].call.arg

\* C9: an exception of the agent run that is no HTTPException ends the
\* request with 500 and the exception's message, never with ok or 502
C9_OtherExceptionGives500 ==
  \A r \in Req :
    req[r].exc.kind = "Exception" =>
      /\ req[r].st = "Failed"
      /\ req[r].response.status = 500 /\ ~req[r].response.ok
      /\ req[r].response.detail.kind = "msg"
      /\ req[r].response.detail.msg = "Agent error: " \o req[r].exc.detail.msg

\* the model API failed after a successful tool call
C9_Witness ==
  \E r \in Req :
    /\ req[r].exc = OtherException("OpenAI API error")
    /\ req[r].wresp.kind = "http" /\ req[r].iter > 0
    /\ req[r].response.status = 500

\* C10: no step changes the configuration or the state of more than one
\* request, two requests given the same have the same outcome, and /healthz
\* answers {ok: true} whatever the other requests are doing
C10_Isolation ==
  /\ [][/\ config' = config
        /\ \A r \in Req, o \in Req :
             r # o /\ req'[r] # req[r] => req'[o] = req[o]]_vars
  /\ [](\A r \in Req, o \in Req :
          /\ req[r].route = req[o].route /\ req[r].body = req[o].body
          /\ req[r].st = req[o].st /\ req[r].pc = req[o].pc
          /\ req[r].call = req[o].call /\ req[r].wresp = req[o].wresp
          /\ req[r].result.t = req[o].result.t /\ req[r].result = req[o].result
          /\ req[r].exc.kind = req[o].exc.kind
          /\ (req[r].exc.kind = "Exception" => req[r].exc = req[o].exc)
          => req[r].response = req[o].response)
  /\ [](\A r \in Req :
          req[r].route = "healthz" /\ req[r].st # "Received" =>
            req[r].st = "Completed" /\ req[r].response = OkResponse)

\* /healthz answered {ok: true} while another request had failed on its
\* webhook
C10_Witness ==
  \E r \in Req, o \in Req :
    /\ req[r].route = "healthz" /\ req[r].st = "Completed"
    /\ req[r].response = OkResponse
    /\ req[o].st = "Failed" /\ req[o].response.status = 502
=============================================================================
